---- MODULE Spec2Model ----
(***************************************************************************)
(* Model of sqltrans: the translation registry and router of               *)
(* sqltrans/translate.py and the token helpers of sqltrans/helpers.py.     *)
(*                                                                         *)
(* Python values are modelled as records carrying a "kind" field, so that  *)
(* None, a raised exception and an object can be told apart:               *)
(*   NoneV                         None                                    *)
(*   Raise(e)                      the call ended by raising e             *)
(*   [kind |-> "Translation", ...] a Translation object                    *)
(* An optional list argument is <<>> for None and <<l>> for the list l.    *)
(***************************************************************************)
EXTENDS Integers, Sequences, FiniteSets, TLC

VARIABLES
    translations_meta,  \* the process-wide TranslationMapping (translate.py:75)
    op,                 \* the last call made and what it returned or raised
    heap,               \* the tokens and token lists alive: heap[id] is the
                        \* object with that id
    ncalls              \* calls of helpers.py made on the statement so far

vars == <<translations_meta, op, heap, ncalls>>

----------------------------------------------------------------------------
(* Bounds *)

\* registry entries the registry specification lets the registry hold
MaxEntries == 3
\* registry entries the route specification lets the registry hold
MaxRouteEntries == 4
\* depth of nested _find_edges calls at which Python raises RecursionError
RecursionLimit == 6
\* calls of helpers.py the tree specification makes on the statement
MaxCalls == 2
\* elements of the list given to build_tokens
MaxArgs == 2
\* tokens the lexer yields for one text
MaxLex == 2

Dialects == {"A", "B", "C"}
RouteDialects == {"A", "B", "C", "D"}

----------------------------------------------------------------------------
(* Python values *)

NoneV == [kind |-> "None"]
Raise(e) == [kind |-> "raise", exc |-> e]
IsRaise(v) == v.kind = "raise"
IsNone(v) == v.kind = "None"

\* An insertion-ordered dict is a sequence of [key, value] records with
\* distinct keys: iteration yields the keys in insertion order, and
\* assigning to an existing key keeps its position.
DictKeys(d) == [i \in 1..Len(d) |-> d[i].key]
DictHas(d, k) == \E i \in 1..Len(d) : d[i].key = k
DictGet(d, k) == d[CHOOSE i \in 1..Len(d) : d[i].key = k].value
DictSet(d, k, v) ==
    IF DictHas(d, k)
    THEN [i \in 1..Len(d) |-> IF d[i].key = k THEN [key |-> k, value |-> v] ELSE d[i]]
    ELSE Append(d, [key |-> k, value |-> v])

\* number of (src, tgt) entries of a registry
RECURSIVE SumLen(_, _)
SumLen(m, S) ==
    IF S = {} THEN 0
    ELSE LET s == CHOOSE s \in S : TRUE IN Len(m[s]) + SumLen(m, S \ {s})
NumEntries(m) == SumLen(m, DOMAIN m)

----------------------------------------------------------------------------
(* Statements and rules.  A statement is a sequence of top-level tokens; a *)
(* rule is a named rewrite.  The rule catalogue is data supplied by the    *)
(* caller: these four are the inputs the model draws from.                 *)

\* statement-level rules: "rename" renames clause 0 to clause 1, "swap"
\* reverses the statement's clauses
StatementRule(rule, stmt) ==
    CASE rule = "rename" -> [i \in 1..Len(stmt) |-> IF stmt[i] = 0 THEN 1 ELSE stmt[i]]
      [] rule = "swap" -> [i \in 1..Len(stmt) |-> stmt[Len(stmt) + 1 - i]]
      [] OTHER -> stmt

\* token-level rules: "bump" rewrites token 1 to 2, "zero" rewrites 2 to 0
TokenRule(rule, tok) ==
    CASE rule = "bump" -> IF tok = 1 THEN 2 ELSE tok
      [] rule = "zero" -> IF tok = 2 THEN 0 ELSE tok
      [] OTHER -> tok

\* StatementTransformationRunner: each rule once, in order, against the root
\* statement; later rules see earlier rules' output.  r is [stmt, log].
RECURSIVE StatementTransformationRunner_run(_, _)
StatementTransformationRunner_run(rules, r) ==
    IF rules = <<>> THEN r
    ELSE StatementTransformationRunner_run(Tail(rules),
            [stmt |-> StatementRule(Head(rules), r.stmt),
             log |-> Append(r.log, [pass |-> "statement", rule |-> Head(rules),
                                    seen |-> r.stmt])])

\* the full rule set, in order, at the token at position i
RECURSIVE RulesAtToken(_, _, _)
RulesAtToken(rules, i, r) ==
    IF rules = <<>> THEN r
    ELSE RulesAtToken(Tail(rules), i,
            [stmt |-> [r.stmt EXCEPT ![i] = TokenRule(Head(rules), r.stmt[i])],
             log |-> Append(r.log, [pass |-> "recursive", rule |-> Head(rules),
                                    seen |-> r.stmt])])

\* RecursiveTransformationRunner: a pre-order walk over the tree, evaluating
\* the full rule set at every visited node
RECURSIVE RecursiveWalk(_, _, _)
RecursiveWalk(rules, i, r) ==
    IF i > Len(r.stmt) THEN r
    ELSE RecursiveWalk(rules, i + 1, RulesAtToken(rules, i, r))
RecursiveTransformationRunner_run(rules, r) == RecursiveWalk(rules, 1, r)

\* Transformation.transform: runs its runner over the statement
Transformation_transform(t, r) ==
    IF t.transformation_runner.kind = "StatementTransformationRunner"
    THEN StatementTransformationRunner_run(t.transformation_runner.transformation_rules, r)
    ELSE RecursiveTransformationRunner_run(t.transformation_runner.transformation_rules, r)

\* CompositeTransformation.transform: its transforms in list order, each fed
\* the previous one's output
RECURSIVE CompositeTransformation_transform(_, _)
CompositeTransformation_transform(transforms, r) ==
    IF transforms = <<>> THEN r
    ELSE CompositeTransformation_transform(Tail(transforms),
            Transformation_transform(Head(transforms), r))

----------------------------------------------------------------------------
(* Translations *)

\* Translation.translate (translate.py:46-47)
Translation_translate(self, r) ==
    CompositeTransformation_transform(self.transformation.transforms, r)

\* chain_func(stmt, fs): applies the functions in order, each to the
\* previous one's result
RECURSIVE chain_func(_, _)
chain_func(r, translations) ==
    IF translations = <<>> THEN r
    ELSE chain_func(Translation_translate(Head(translations), r), Tail(translations))

\* CompositeTranslation.translate (translate.py:58-59)
CompositeTranslation_translate(self, r) == chain_func(r, self.translations)

\* dynamic dispatch of translation.translate(stmt)
TranslationBase_translate(self, r) ==
    IF self.kind = "CompositeTranslation"
    THEN CompositeTranslation_translate(self, r)
    ELSE Translation_translate(self, r)

\* CompositeTranslation.__init__ (translate.py:51-56): registers nothing
CompositeTranslation(src_dialect, tgt_dialect, translations) ==
    [kind |-> "CompositeTranslation", src_dialect |-> src_dialect,
     tgt_dialect |-> tgt_dialect, translations |-> translations]

----------------------------------------------------------------------------
(* The registry *)

\* TranslationMapping.register_translation (translate.py:63-69); returns the
\* mapping afterwards and None or the exception raised
TranslationMapping_register_translation(self, src, tgt, translation, overwrite) ==
    LET withsrc == IF src \in DOMAIN self THEN self ELSE self @@ (src :> <<>>)
        trans == withsrc[src]
    IN  IF DictHas(trans, tgt) /\ overwrite
        THEN [meta |-> withsrc, result |-> Raise("ValueError")]
        ELSE [meta |-> [withsrc EXCEPT ![src] = DictSet(trans, tgt, translation)],
              result |-> NoneV]

\* TranslationMapping.get_translation (translate.py:71-72)
get_translation(self, src, tgt) ==
    IF src \in DOMAIN self /\ DictHas(self[src], tgt)
    THEN DictGet(self[src], tgt)
    ELSE Raise("KeyError")

\* register_translation (translate.py:78-79)
register_translation(translation, overwrite, trans_meta) ==
    TranslationMapping_register_translation(trans_meta, translation.src_dialect,
        translation.tgt_dialect, translation, overwrite)

----------------------------------------------------------------------------
(* The router *)

ListV(items) == [kind |-> "list", items |-> items]

\* a search that keeps the first path found instead of the shortest
FirstFound(ls) == ls[1]

\* min(new_keys, key=len): the first list of minimal length
MinByLen(ls) ==
    ls[CHOOSE i \in 1..Len(ls) :
          /\ \A j \in 1..Len(ls) : Len(ls[i]) <= Len(ls[j])
          /\ \A j \in 1..(i - 1) : Len(ls[j]) > Len(ls[i])]

\* _find_edges (translate.py:82-92).  keys is <<>> for None; depth counts the
\* nested calls, and the call that would exceed RecursionLimit raises
\* RecursionError, which nothing on the way up catches.
RECURSIVE _find_edges(_, _, _, _, _)
\* the comprehension of translate.py:87-88 from neighbour number i on, acc
\* holding the results kept so far
RECURSIVE new_keys(_, _, _, _, _, _, _)
new_keys(pairs, neighbours, i, tgt, keys, depth, acc) ==
    IF i > Len(neighbours) THEN ListV(acc)
    ELSE LET neighbour == neighbours[i]
             k == _find_edges(pairs, neighbour, tgt, Append(keys, neighbour), depth + 1)
         IN  IF IsRaise(k) THEN k
             ELSE new_keys(pairs, neighbours, i + 1, tgt, keys, depth,
                           IF IsNone(k) THEN acc ELSE Append(acc, k.items))

_find_edges(pairs, src, tgt, keys, depth) ==
    IF depth > RecursionLimit THEN Raise("RecursionError")
    ELSE LET keys1 == IF keys = <<>> THEN <<src>> ELSE keys
         IN  IF src = tgt THEN ListV(keys1)
             ELSE IF src \in DOMAIN pairs
             THEN LET found == new_keys(pairs, DictKeys(pairs[src]), 1, tgt, keys1, depth, <<>>)
                  IN  IF IsRaise(found) THEN found
                      ELSE IF found.items # <<>> THEN ListV(MinByLen(found.items))
                      ELSE NoneV
             ELSE NoneV

\* find_route (translate.py:95-98)
find_route(pairs, src, tgt) ==
    LET points == _find_edges(pairs, src, tgt, <<>>, 1)
    IN  IF IsRaise(points) THEN points
        ELSE IF ~IsNone(points) /\ points.items # <<>>
        THEN ListV([i \in 1..(Len(points.items) - 1) |->
                        <<points.items[i], points.items[i + 1]>>])
        ELSE NoneV

Reverse(q) == [i \in 1..Len(q) |-> q[Len(q) + 1 - i]]

\* a find_translation that composes the hops' translations last hop first
find_translation_reversed(src_dialect, tgt_dialect, trans_meta) ==
    LET route == find_route(trans_meta, src_dialect, tgt_dialect)
    IN  IF IsRaise(route) THEN route
        ELSE IF IsNone(route) \/ route.items = <<>> THEN NoneV
        ELSE IF Len(route.items) = 1
        THEN get_translation(trans_meta, route.items[1][1], route.items[1][2])
        ELSE CompositeTranslation(src_dialect, tgt_dialect,
                Reverse([i \in 1..Len(route.items) |->
                    get_translation(trans_meta, route.items[i][1], route.items[i][2])]))

\* find_translation (translate.py:101-114)
find_translation(src_dialect, tgt_dialect, trans_meta) ==
    LET route == find_route(trans_meta, src_dialect, tgt_dialect)
    IN  IF IsRaise(route) THEN route
        ELSE IF IsNone(route) \/ route.items = <<>> THEN NoneV
        ELSE IF Len(route.items) = 1
        THEN get_translation(trans_meta, route.items[1][1], route.items[1][2])
        ELSE CompositeTranslation(src_dialect, tgt_dialect,
                [i \in 1..Len(route.items) |->
                    get_translation(trans_meta, route.items[i][1], route.items[i][2])])

\* the runner and Transformation objects build_translation constructs
Transformation(runner, rules) ==
    [kind |-> "Transformation",
     transformation_runner |-> [kind |-> runner, transformation_rules |-> rules]]

\* a build_translation that lists the recursive pass before the statement pass
build_translation_swapped(src_dialect, tgt_dialect, register, global_rules, local_rules, trans_meta) ==
    LET grules == IF global_rules = <<>> THEN <<>> ELSE global_rules[1]
        lrules == IF local_rules = <<>> THEN <<>> ELSE local_rules[1]
        translation ==
            [kind |-> "Translation", src_dialect |-> src_dialect,
             tgt_dialect |-> tgt_dialect,
             transformation |->
                [kind |-> "CompositeTransformation",
                 transforms |-> <<Transformation("RecursiveTransformationRunner", lrules),
                                  Transformation("StatementTransformationRunner", grules)>>]]
        reg == register_translation(translation, FALSE, trans_meta)
    IN  IF ~register THEN [meta |-> trans_meta, result |-> translation]
        ELSE IF IsRaise(reg.result) THEN reg
        ELSE [meta |-> reg.meta, result |-> translation]

\* build_translation (translate.py:117-157) with Translation.__init__
\* (translate.py:32-44), which registers the new object when register is
\* set.  global_rules and local_rules are <<>> for None, <<l>> for a list.
build_translation(src_dialect, tgt_dialect, register, global_rules, local_rules, trans_meta) ==
    LET grules == IF global_rules = <<>> THEN <<>> ELSE global_rules[1]
        lrules == IF local_rules = <<>> THEN <<>> ELSE local_rules[1]
        translation ==
            [kind |-> "Translation", src_dialect |-> src_dialect,
             tgt_dialect |-> tgt_dialect,
             transformation |->
                [kind |-> "CompositeTransformation",
                 transforms |-> <<Transformation("StatementTransformationRunner", grules),
                                  Transformation("RecursiveTransformationRunner", lrules)>>]]
        reg == register_translation(translation, FALSE, trans_meta)
    IN  IF ~register THEN [meta |-> trans_meta, result |-> translation]
        ELSE IF IsRaise(reg.result) THEN reg
        ELSE [meta |-> reg.meta, result |-> translation]

\* translate (translate.py:160-185).  sql is the sequence of statements the
\* source parser yields for the text; translation is <<>> for None and <<t>>
\* for a supplied translation, which is an object and so always true.  The
\* result keeps the statements as parsed (as_parsed) with the log of the rule
\* firings of each; single tells that the one-element list was unwrapped.
translate(sql, src_dialect, tgt_dialect, trans_meta, translation, ensure_list) ==
    LET found == IF translation # <<>> THEN translation[1]
                 ELSE find_translation(src_dialect, tgt_dialect, trans_meta)
    IN  IF IsRaise(found) THEN [result |-> found, parsed |-> FALSE]
        ELSE IF IsNone(found)
        THEN [result |-> Raise("TranslationNotFoundException"), parsed |-> FALSE]
        ELSE LET translated == [i \in 1..Len(sql) |->
                        TranslationBase_translate(found, [stmt |-> sql[i], log |-> <<>>])]
             IN  [result |-> [kind |-> "ok", used |-> found,
                              stmts |-> [i \in 1..Len(sql) |-> translated[i].stmt],
                              logs |-> [i \in 1..Len(sql) |-> translated[i].log],
                              single |-> (~ensure_list /\ Len(sql) = 1)],
                  parsed |-> TRUE]

----------------------------------------------------------------------------
(* Inputs the specifications draw from *)

\* rule lists given to build_translation as (global_rules, local_rules)
RuleInputs ==
    { <<<<>>, << <<"bump">> >> >>,
      << << <<"swap", "rename">> >>, << <<"zero", "bump">> >> >> }

\* the translations build_translation can return for a dialect pair
TranslationsFor(src, tgt) ==
    { build_translation(src, tgt, FALSE, ri[1], ri[2], <<>>).result : ri \in RuleInputs }

\* parsed SQL texts with the ensure_list flag of the call: one statement,
\* and two statements
SqlInputs ==
    { [sql |-> << <<0, 1>> >>, ensure_list |-> FALSE],
      [sql |-> << <<2, 0>>, <<1, 1>> >>, ensure_list |-> TRUE] }

\* a translation held by the caller and handed to translate
SuppliedTranslation ==
    build_translation("A", "B", FALSE, << <<"swap">> >>, << <<"bump">> >>, <<>>).result

----------------------------------------------------------------------------
(* Registry specification *)

Call(name, args, before, result) ==
    [name |-> name, args |-> args, before |-> before, result |-> result]

\* The caller makes one call at a time: op holds the call just made until
\* the caller has taken its result, and is Idle between calls.
Idle == Call("idle", <<>>, <<>>, NoneV)

CallerContinues ==
    /\ op.name # "idle"
    /\ op' = Idle
    /\ UNCHANGED <<translations_meta, heap, ncalls>>

Init ==
    /\ translations_meta = <<>>
    /\ op = Idle
    /\ heap = <<>>
    /\ ncalls = 0

BuildTranslation(src, tgt, register, ri) ==
    LET r == build_translation(src, tgt, register, ri[1], ri[2], translations_meta)
    IN  /\ op = Idle
        /\ translations_meta' = r.meta
        /\ op' = Call("build_translation",
                      [src |-> src, tgt |-> tgt, register |-> register,
                       global_rules |-> ri[1], local_rules |-> ri[2]],
                      translations_meta, r.result)
        /\ UNCHANGED <<heap, ncalls>>

RegisterTranslation(translation, overwrite) ==
    LET r == register_translation(translation, overwrite, translations_meta)
    IN  /\ op = Idle
        /\ translations_meta' = r.meta
        /\ op' = Call("register_translation",
                      [src |-> translation.src_dialect, tgt |-> translation.tgt_dialect,
                       translation |-> translation, overwrite |-> overwrite],
                      translations_meta, r.result)
        /\ UNCHANGED <<heap, ncalls>>

MappingRegisterTranslation(src, tgt, translation, overwrite) ==
    LET r == TranslationMapping_register_translation(translations_meta, src, tgt,
                                                     translation, overwrite)
    IN  /\ op = Idle
        /\ translations_meta' = r.meta
        /\ op' = Call("TranslationMapping.register_translation",
                      [src |-> src, tgt |-> tgt, translation |-> translation,
                       overwrite |-> overwrite],
                      translations_meta, r.result)
        /\ UNCHANGED <<heap, ncalls>>

GetTranslation(src, tgt) ==
    /\ op = Idle
    /\ op' = Call("get_translation", [src |-> src, tgt |-> tgt], translations_meta,
                  get_translation(translations_meta, src, tgt))
    /\ UNCHANGED <<translations_meta, heap, ncalls>>

FindRoute(src, tgt) ==
    /\ op = Idle
    /\ op' = Call("find_route", [src |-> src, tgt |-> tgt], translations_meta,
                  find_route(translations_meta, src, tgt))
    /\ UNCHANGED <<translations_meta, heap, ncalls>>

FindTranslation(src, tgt) ==
    /\ op = Idle
    /\ op' = Call("find_translation", [src |-> src, tgt |-> tgt], translations_meta,
                  find_translation(src, tgt, translations_meta))
    /\ UNCHANGED <<translations_meta, heap, ncalls>>

Translate(sql, src, tgt, translation, ensure_list) ==
    LET r == translate(sql, src, tgt, translations_meta, translation, ensure_list)
    IN  /\ op = Idle
        /\ op' = Call("translate",
                      [sql |-> sql, src |-> src, tgt |-> tgt, translation |-> translation,
                       ensure_list |-> ensure_list, parsed |-> r.parsed],
                      translations_meta, r.result)
        /\ UNCHANGED <<translations_meta, heap, ncalls>>

\* the registry stays within n entries
Within(n) == NumEntries(translations_meta') <= n

Next ==
    \/ \E src \in Dialects, tgt \in Dialects, register \in BOOLEAN, ri \in RuleInputs :
            BuildTranslation(src, tgt, register, ri) /\ Within(MaxEntries)
    \/ \E src \in Dialects, tgt \in Dialects, overwrite \in BOOLEAN :
       \E translation \in TranslationsFor(src, tgt) :
            RegisterTranslation(translation, overwrite) /\ Within(MaxEntries)
    \/ \E src \in Dialects, tgt \in Dialects, overwrite \in BOOLEAN :
       \E translation \in TranslationsFor(src, tgt) :
            MappingRegisterTranslation(src, tgt, translation, overwrite) /\ Within(MaxEntries)
    \/ \E src \in Dialects, tgt \in Dialects : GetTranslation(src, tgt)
    \/ \E src \in Dialects, tgt \in Dialects : FindRoute(src, tgt)
    \/ \E src \in Dialects, tgt \in Dialects : FindTranslation(src, tgt)
    \/ \E in \in SqlInputs, src \in Dialects, tgt \in Dialects,
          translation \in {<<>>, <<SuppliedTranslation>>} :
            Translate(in.sql, src, tgt, translation, in.ensure_list)
    \/ CallerContinues

Spec == Init /\ [][Next]_vars

----------------------------------------------------------------------------
(* Route specification: the registry is filled over four dialects by       *)
(* build_translation with no rules, and find_route is called on it.        *)

NextRoute ==
    \/ \E src \in RouteDialects, tgt \in RouteDialects :
            BuildTranslation(src, tgt, TRUE, <<<<>>, <<>>>>) /\ Within(MaxRouteEntries)
    \/ \E src \in RouteDialects, tgt \in RouteDialects : FindRoute(src, tgt)
    \/ CallerContinues

SpecRoute == Init /\ [][NextRoute]_vars

----------------------------------------------------------------------------
(* Tokens (helpers.py).  heap[id] is [is_group, tokens, parent]: a Token   *)
(* has is_group FALSE and no tokens, a TokenList holds the ids of its      *)
(* elements in order; parent is the id of the recorded parent, 0 for None. *)

Token == [is_group |-> FALSE, tokens |-> <<>>, parent |-> 0]

\* n fresh Token objects appended to the heap
RECURSIVE Alloc(_, _)
Alloc(h, n) == IF n = 0 THEN h ELSE Alloc(Append(h, Token), n - 1)

\* TokenList.__init__: holds the tokens given and records itself as the
\* parent of each of them
TokenList(h, new_tokens) ==
    LET self == Len(h) + 1
        h1 == Append(h, [is_group |-> TRUE, tokens |-> new_tokens, parent |-> 0])
    IN  [i \in 1..Len(h1) |->
            IF \E j \in 1..Len(new_tokens) : new_tokens[j] = i
            THEN [h1[i] EXCEPT !.parent = self]
            ELSE h1[i]]

\* the loop of build_tokens (helpers.py:12-26) from item number i on.  An
\* item is [type, id, n]: a str whose text the lexer splits into n tokens, an
\* already parsed token id whose text the lexer splits into n tokens, or a
\* value of another type.  lexer tells whether a lexer was given.
RECURSIVE build_tokens_loop(_, _, _, _, _, _)
build_tokens_loop(items, i, lexer, translate_tokens, h, new_tokens) ==
    IF i > Len(items) THEN [kind |-> "ok", heap |-> h, new_tokens |-> new_tokens]
    ELSE LET token == items[i]
             Fresh(n) == [j \in 1..n |-> Len(h) + j]
         IN  IF token.type = "str"
             THEN LET n == IF lexer THEN token.n ELSE 1
                  IN  build_tokens_loop(items, i + 1, lexer, translate_tokens,
                                        Alloc(h, n), new_tokens \o Fresh(n))
             ELSE IF token.type = "parsed"
             THEN IF translate_tokens
                  THEN IF ~lexer THEN Raise("AttributeError")
                       ELSE build_tokens_loop(items, i + 1, lexer, translate_tokens,
                                Alloc(h, token.n), new_tokens \o Fresh(token.n))
                  ELSE build_tokens_loop(items, i + 1, lexer, translate_tokens,
                                         h, Append(new_tokens, token.id))
             ELSE Raise("ValueError")

\* build_tokens (helpers.py:9-28): the heap afterwards and the id of the
\* TokenList returned, or the exception raised
build_tokens(items, lexer, translate_tokens, h) ==
    LET r == build_tokens_loop(items, 1, lexer, translate_tokens, h, <<>>)
    IN  IF IsRaise(r) THEN [heap |-> h, result |-> r]
        ELSE [heap |-> TokenList(r.heap, r.new_tokens),
              result |-> [kind |-> "ok", id |-> Len(r.heap) + 1]]

\* get_token_idx: the position of the token within its recorded parent, or
\* the error raised when it has no parent or its parent does not hold it
get_token_idx(token, h) ==
    LET p == h[token].parent
    IN  IF p = 0 THEN Raise("ValueError")
        ELSE IF \A i \in 1..Len(h[p].tokens) : h[p].tokens[i] # token
        THEN Raise("ValueError")
        ELSE [kind |-> "ok",
              idx |-> CHOOSE i \in 1..Len(h[p].tokens) :
                        /\ h[p].tokens[i] = token
                        /\ \A j \in 1..(i - 1) : h[p].tokens[j] # token]

\* replace_token (helpers.py:32-36)
replace_token(old, new, h) ==
    LET idx == get_token_idx(old, h)
        p == h[old].parent
        h1 == [h EXCEPT ![p].tokens[idx.idx] = new]
    IN  IF IsRaise(idx) THEN [heap |-> h, result |-> idx]
        ELSE [heap |-> [h1 EXCEPT ![new].parent = p], result |-> NoneV]

----------------------------------------------------------------------------
(* Tree specification: a parsed statement, and the calls of helpers.py on  *)
(* its tokens.                                                             *)

\* the statement the parser returned: statement 1 holds token 2 and group 3,
\* which holds token 4
ParsedStatement ==
    << [is_group |-> TRUE, tokens |-> <<2, 3>>, parent |-> 0],
       [is_group |-> FALSE, tokens |-> <<>>, parent |-> 1],
       [is_group |-> TRUE, tokens |-> <<4>>, parent |-> 1],
       [is_group |-> FALSE, tokens |-> <<>>, parent |-> 3] >>

InitTree ==
    /\ translations_meta = <<>>
    /\ op = Idle
    /\ heap = ParsedStatement
    /\ ncalls = 0

\* the items build_tokens can be given: the split counts are drawn only
\* where the call uses them
BuildItems(lexer, translate_tokens) ==
    { [type |-> "str", id |-> 0, n |-> n] : n \in (IF lexer THEN 1..MaxLex ELSE {1}) }
    \cup { [type |-> "parsed", id |-> id, n |-> n] :
              id \in 1..Len(heap), n \in (IF translate_tokens /\ lexer THEN 1..MaxLex ELSE {1}) }
    \cup { [type |-> "other", id |-> 0, n |-> 1] }

ItemLists(S) == UNION { [1..k -> S] : k \in 1..MaxArgs }

BuildTokens(items, lexer, translate_tokens) ==
    LET r == build_tokens(items, lexer, translate_tokens, heap)
    IN  /\ op = Idle
        /\ ncalls < MaxCalls
        /\ ncalls' = ncalls + 1
        /\ heap' = r.heap
        /\ op' = Call("build_tokens",
                      [tokens |-> items, lexer |-> lexer,
                       translate_tokens |-> translate_tokens],
                      heap, r.result)
        /\ UNCHANGED translations_meta

ReplaceToken(old, new) ==
    LET r == replace_token(old, new, heap)
    IN  /\ op = Idle
        /\ ncalls < MaxCalls
        /\ ncalls' = ncalls + 1
        /\ heap' = r.heap
        /\ op' = Call("replace_token", [old |-> old, new |-> new], heap, r.result)
        /\ UNCHANGED translations_meta

\* Any element is replaced, by any element but the statement, which is the
\* root of the tree and is put into no container.
NextTree ==
    \/ \E old \in 1..Len(heap), new \in 2..Len(heap) : ReplaceToken(old, new)
    \/ \E lexer \in BOOLEAN, translate_tokens \in BOOLEAN :
       \E items \in ItemLists(BuildItems(lexer, translate_tokens)) :
            BuildTokens(items, lexer, translate_tokens)
    \/ CallerContinues

SpecTree == InitTree /\ [][NextTree]_vars

----------------------------------------------------------------------------
(* Properties *)

\* the registry holds an entry for (src, tgt)
HasEntry(meta, src, tgt) == src \in DOMAIN meta /\ DictHas(meta[src], tgt)

\* the entry the registry holds for (src, tgt), read from the mapping itself
Entry(meta, src, tgt) == DictGet(meta[src], tgt)

IsRegisterCall ==
    op.name \in {"register_translation", "TranslationMapping.register_translation"}

\* every statement of two tokens
Statements == [1..2 -> 0..2]

\* Reference search: the least number of registered hops from src to tgt by
\* breadth-first search over sets of dialects, -1 when there is no path.
Successors(pairs, S) ==
    UNION { { pairs[s][i].key : i \in 1..Len(pairs[s]) } : s \in S \cap DOMAIN pairs }

RECURSIVE BfsDist(_, _, _, _, _)
BfsDist(pairs, frontier, seen, tgt, d) ==
    IF tgt \in frontier THEN d
    ELSE LET next == Successors(pairs, frontier) \ seen
         IN  IF next = {} THEN -1
             ELSE BfsDist(pairs, next, seen \cup next, tgt, d + 1)

Dist(pairs, src, tgt) == BfsDist(pairs, {src}, {src}, tgt, 0)

\* hops is a path of registered edges from src to tgt
IsPath(pairs, hops, src, tgt) ==
    /\ Len(hops) >= 1
    /\ hops[1][1] = src
    /\ hops[Len(hops)][2] = tgt
    /\ \A i \in 1..Len(hops) : HasEntry(pairs, hops[i][1], hops[i][2])
    /\ \A i \in 1..(Len(hops) - 1) : hops[i][2] = hops[i + 1][1]

\* C1: registering for a pair that already has an entry, with overwrite
\* false, raises the duplicate-translation error and leaves the entry of the
\* pair as it was, through the mapping's method and through the module-level
\* function alike.
C1_DuplicateRaisesAndKeepsEntry ==
    (/\ IsRegisterCall
     /\ ~op.args.overwrite
     /\ HasEntry(op.before, op.args.src, op.args.tgt))
    => /\ IsRaise(op.result)
       /\ HasEntry(translations_meta, op.args.src, op.args.tgt)
       /\ Entry(translations_meta, op.args.src, op.args.tgt)
            = Entry(op.before, op.args.src, op.args.tgt)

\* C2: registering for a pair that already has an entry, with overwrite
\* true, raises nothing and replaces the entry: get_translation returns the
\* new translation and a translate with no translation supplied uses it.
C2_OverwriteReplacesEntry ==
    (/\ IsRegisterCall
     /\ op.args.overwrite
     /\ HasEntry(op.before, op.args.src, op.args.tgt))
    => /\ ~IsRaise(op.result)
       /\ get_translation(translations_meta, op.args.src, op.args.tgt)
            = op.args.translation
       /\ LET t == translate(<< <<0, 1>> >>, op.args.src, op.args.tgt,
                             translations_meta, <<>>, FALSE).result
          IN  t.kind = "ok" /\ t.used = op.args.translation

\* C3: find_route comes back on every registry graph, cycles included: with
\* none when the target cannot be reached, with a route when it can.
C3_FindRouteAlwaysReturns ==
    op.name = "find_route"
    => IF Dist(op.before, op.args.src, op.args.tgt) = -1
       THEN IsNone(op.result)
       ELSE op.result.kind = "list"

\* C4: whenever find_route returns for source # target, its result agrees
\* with the breadth-first search: none exactly when the target is out of
\* reach, else a path of registered edges from source to target with the
\* least number of hops.
C4_RouteAgreesWithBfs ==
    (/\ op.name = "find_route"
     /\ op.args.src # op.args.tgt
     /\ ~IsRaise(op.result))
    => LET d == Dist(op.before, op.args.src, op.args.tgt)
       IN  IF d = -1 THEN IsNone(op.result)
           ELSE /\ op.result.kind = "list"
                /\ IsPath(op.before, op.result.items, op.args.src, op.args.tgt)
                /\ Len(op.result.items) = d

\* the registry of the diamond A->B, B->C, A->D, D->C, asked for A to C
C4_Witness ==
    /\ op.name = "find_route"
    /\ op.args.src = "A" /\ op.args.tgt = "C"
    /\ HasEntry(op.before, "A", "B") /\ HasEntry(op.before, "B", "C")
    /\ HasEntry(op.before, "A", "D") /\ HasEntry(op.before, "D", "C")
    /\ op.result.kind = "list"
    /\ Len(op.result.items) = 2

\* C5: translate with no translation supplied, for source # target with no
\* route in the registry, raises TranslationNotFoundError before anything is
\* parsed and leaves the registry alone; with a translation supplied it uses
\* that translation and never raises TranslationNotFoundError.
C5_NoRouteRaisesNotFound ==
    op.name = "translate"
    => /\ (/\ op.args.translation = <<>>
           /\ op.args.src # op.args.tgt
           /\ Dist(op.before, op.args.src, op.args.tgt) = -1)
          => /\ op.result = Raise("TranslationNotFoundException")
             /\ ~op.args.parsed
             /\ translations_meta = op.before
       /\ op.args.translation # <<>>
          => /\ op.result.kind = "ok"
             /\ op.result.used = op.args.translation[1]

\* C6: a lookup with source = target is never "not found": find_route returns
\* the empty route, find_translation does not return none, and translate
\* with no translation supplied raises nothing and returns the statements
\* as they were.
C6_SameDialectIsIdentity ==
    /\ (op.name = "find_route" /\ op.args.src = op.args.tgt)
       => op.result = ListV(<<>>)
    /\ (op.name = "find_translation" /\ op.args.src = op.args.tgt)
       => ~IsNone(op.result) /\ ~IsRaise(op.result)
    /\ (op.name = "translate" /\ op.args.src = op.args.tgt /\ op.args.translation = <<>>)
       => /\ op.result.kind = "ok"
          /\ op.result.stmts = op.args.sql

\* the registered translations of the hops, applied one after the other
RECURSIVE ApplyInTurn(_, _)
ApplyInTurn(regs, stmt) ==
    IF regs = <<>> THEN stmt
    ELSE ApplyInTurn(Tail(regs),
            Translation_translate(Head(regs), [stmt |-> stmt, log |-> <<>>]).stmt)

\* C7: for a route of n >= 1 hops, find_translation returns a translation
\* that maps every statement as the hops' registered translations applied in
\* route order do: the registered object itself for n = 1, and for n > 1 a
\* CompositeTranslation over exactly those translations in route order,
\* which is not put into the registry.
C7_FoundTranslationFollowsRoute ==
    op.name = "find_translation"
    => LET route == find_route(op.before, op.args.src, op.args.tgt)
       IN  (route.kind = "list" /\ route.items # <<>>)
           => LET n == Len(route.items)
                  regs == [i \in 1..n |->
                              Entry(op.before, route.items[i][1], route.items[i][2])]
              IN  /\ translations_meta = op.before
                  /\ n = 1 => op.result = regs[1]
                  /\ n > 1 => /\ op.result.kind = "CompositeTranslation"
                              /\ op.result.translations = regs
                              /\ op.result.src_dialect = op.args.src
                              /\ op.result.tgt_dialect = op.args.tgt
                              /\ \A s \in DOMAIN translations_meta :
                                 \A i \in 1..Len(translations_meta[s]) :
                                    translations_meta[s][i].value.kind = "Translation"
                  /\ \A stmt \in Statements :
                        TranslationBase_translate(op.result,
                            [stmt |-> stmt, log |-> <<>>]).stmt = ApplyInTurn(regs, stmt)

\* a composite over two hops whose translations differ, for a statement on
\* which their order shows
C7_Witness ==
    /\ op.name = "find_translation"
    /\ op.result.kind = "CompositeTranslation"
    /\ Len(op.result.translations) >= 2
    /\ \E stmt \in Statements :
          ApplyInTurn(op.result.translations, stmt)
            # ApplyInTurn(<<op.result.translations[2], op.result.translations[1]>>, stmt)

\* the rule list an optional argument stands for
RulesOf(arg) == IF arg = <<>> THEN <<>> ELSE arg[1]

\* C8: the translation build_translation assembles runs the statement-level
\* pass over global_rules to its end before the recursive pass over
\* local_rules starts, and the recursive pass works on the statement-level
\* pass's output: in the log of rule firings, the global rules come first,
\* each once and in order, every later firing is a local rule, and the first
\* local rule sees the statement the global rules left.
C8_StatementPassBeforeRecursivePass ==
    op.name = "build_translation"
    => LET G == RulesOf(op.args.global_rules)
           L == RulesOf(op.args.local_rules)
       IN  \A stmt \in Statements :
              LET log == Translation_translate(op.result, [stmt |-> stmt, log |-> <<>>]).log
                  after == StatementTransformationRunner_run(G, [stmt |-> stmt, log |-> <<>>]).stmt
              IN  /\ Len(log) = Len(G) + Len(L) * Len(stmt)
                  /\ \A i \in 1..Len(G) : log[i].pass = "statement" /\ log[i].rule = G[i]
                  /\ \A i \in (Len(G) + 1)..Len(log) : log[i].pass = "recursive"
                  /\ Len(G) > 0 => log[1].seen = stmt
                  /\ Len(log) > Len(G) => log[Len(G) + 1].seen = after

\* a translation built with global and local rules, and a statement the
\* global rules change before the local rules see it
C8_Witness ==
    /\ op.name = "build_translation"
    /\ RulesOf(op.args.global_rules) # <<>>
    /\ RulesOf(op.args.local_rules) # <<>>
    /\ \E stmt \in Statements :
          LET log == Translation_translate(op.result, [stmt |-> stmt, log |-> <<>>]).log
              g == Len(RulesOf(op.args.global_rules))
          IN  Len(log) > g /\ log[g + 1].seen # stmt

\* C9: when old is held by its recorded parent at index i, replace_token
\* (of old by another element) succeeds, and then slot i of the parent holds new, the parent's other
\* slots and its length are as before, new's parent is that container, and
\* old's parent reference is cleared.
C9_ReplaceDetachesOld ==
    (/\ op.name = "replace_token"
     /\ op.args.old # op.args.new
     /\ get_token_idx(op.args.old, op.before).kind = "ok")
    => LET p == op.before[op.args.old].parent
           i == get_token_idx(op.args.old, op.before).idx
       IN  /\ ~IsRaise(op.result)
           /\ heap[p].tokens[i] = op.args.new
           /\ Len(heap[p].tokens) = Len(op.before[p].tokens)
           /\ \A j \in 1..Len(heap[p].tokens) :
                 j # i => heap[p].tokens[j] = op.before[p].tokens[j]
           /\ heap[op.args.new].parent = p
           /\ heap[op.args.old].parent = 0

\* C10: after any sequence of build_tokens and replace_token calls, every
\* element held in a container's token list records that container as its
\* parent.
C10_HeldElementsRecordHolder ==
    \A c \in 1..Len(heap) :
       \A i \in 1..Len(heap[c].tokens) : heap[heap[c].tokens[i]].parent = c

====
